---- MODULE Spec2Model ----
(***************************************************************************)
(* Kaboomer: the `init` and `add` commands of the project scaffolder.      *)
(*                                                                         *)
(* Strings are sequences of one-character strings, so that the regular     *)
(* expressions, String.split and path.join of the source are computed      *)
(* character by character.  A path is the sequence of its segments below   *)
(* the filesystem root; the filesystem is a function from the paths that   *)
(* exist to what is stored there.                                          *)
(***************************************************************************)
EXTENDS Integers, Sequences, FiniteSets, TLC

(***************************************************************************)
(* Bounds of the model.                                                    *)
(***************************************************************************)
\* how many entries (beyond the working directory) exist before the command
MaxOld == 2
\* an environmental fault (permission, disk full) can hit the 1st ..
\* (MaxFaultPos+1)-th system call of a statement
MaxFaultPos == 2
\* how many times the same init command is run again over the same starting
\* filesystem, to compare what the runs generate
MaxReruns == 1
\* makeFolders followed step by step makes no more recursive calls than this
MaxCalls == 8

(***************************************************************************)
(* State.                                                                  *)
(***************************************************************************)
VARIABLES
    cmd,      \* the command line of this invocation
    fs,       \* the filesystem
    fs0,      \* history: the filesystem when the command started
    log,      \* the system calls made so far, in order, each with its outcome
    pc,       \* where the action is
    ip,       \* init: the index in InitBody of the next statement to call
    inflight, \* init: the indices of the statements whose promise is pending
    gitCode,  \* the exit code of `git init`, -1 before it has exited
    exitCode, \* the exit code of the process, -1 while it runs
    first,    \* history: what the earlier runs of the same command generated
    mf        \* makeFolders step by step: its argument, the stack of its
              \* activations and the number of recursive calls made

vars == <<cmd, fs, fs0, log, pc, ip, inflight, gitCode, exitCode, first, mf>>

(***************************************************************************)
(* Characters and string literals of the source.                           *)
(***************************************************************************)
LowerLetters == <<"a", "b", "c", "d", "e", "f", "g", "h", "i", "j", "k", "l", "m",
                  "n", "o", "p", "q", "r", "s", "t", "u", "v", "w", "x", "y", "z">>
UpperLetters == <<"A", "B", "C", "D", "E", "F", "G", "H", "I", "J", "K", "L", "M",
                  "N", "O", "P", "Q", "R", "S", "T", "U", "V", "W", "X", "Y", "Z">>
Digits == {"0", "1", "2", "3", "4", "5", "6", "7", "8", "9"}

Range(s) == {s[i] : i \in DOMAIN s}

S_src == <<"s", "r", "c">>
S_scenes == <<"s", "c", "e", "n", "e", "s">>
S_objects == <<"o", "b", "j", "e", "c", "t", "s">>
S_components == <<"c", "o", "m", "p", "o", "n", "e", "n", "t", "s">>
S_public == <<"p", "u", "b", "l", "i", "c">>
S_assets == <<"a", "s", "s", "e", "t", "s">>
S_manifest_json == <<"m", "a", "n", "i", "f", "e", "s", "t", ".", "j", "s", "o", "n">>
S_index_ts == <<"i", "n", "d", "e", "x", ".", "t", "s">>
S_constants_ts == <<"c", "o", "n", "s", "t", "a", "n", "t", "s", ".", "t", "s">>
S_index_html == <<"i", "n", "d", "e", "x", ".", "h", "t", "m", "l">>
S_prettierrc == <<".", "p", "r", "e", "t", "t", "i", "e", "r", "r", "c">>
S_gitignore == <<".", "g", "i", "t", "i", "g", "n", "o", "r", "e">>
S_package_json == <<"p", "a", "c", "k", "a", "g", "e", ".", "j", "s", "o", "n">>
S_tsconfig_json == <<"t", "s", "c", "o", "n", "f", "i", "g", ".", "j", "s", "o", "n">>
S_vite_config_js == <<"v", "i", "t", "e", ".", "c", "o", "n", "f", "i", "g", ".", "j", "s">>
S_dot_ts == <<".", "t", "s">>
S_unnamed_game == <<"u", "n", "n", "a", "m", "e", "d", "-", "g", "a", "m", "e">>
\* the directory `git init` creates in its working directory
S_dot_git == <<".", "g", "i", "t">>

(***************************************************************************)
(* PACKAGE_NAME_REGEX = /^(@[a-z0-9-~][a-z0-9-._~]*\/)?[a-z0-9-~][a-z0-9-._~]*$/ *)
(***************************************************************************)
\* [a-z0-9-~]
NameFirstClass == Range(LowerLetters) \cup Digits \cup {"-", "~"}
\* [a-z0-9-._~]
NameRestClass == Range(LowerLetters) \cup Digits \cup {"-", ".", "_", "~"}

\* s[from..to] matches [a-z0-9-~][a-z0-9-._~]*
MatchesNamePart(s, from, to) ==
    /\ from <= to
    /\ s[from] \in NameFirstClass
    /\ \A i \in (from + 1)..to : s[i] \in NameRestClass

\* PACKAGE_NAME_REGEX.test(s): k is the length of the optional group
PACKAGE_NAME_REGEX_test(s) ==
    \E k \in 0..Len(s) :
        /\ \/ k = 0
           \/ /\ k >= 3
              /\ s[1] = "@"
              /\ MatchesNamePart(s, 2, k - 1)
              /\ s[k] = "/"
        /\ MatchesNamePart(s, k + 1, Len(s))

(***************************************************************************)
(* path.join, path.dirname and String.split("/").                          *)
(***************************************************************************)
RECURSIVE Split(_)
\* str.split("/"): the pieces between the separators, empty pieces included
Split(str) ==
    IF \A i \in DOMAIN str : str[i] # "/"
    THEN <<str>>
    ELSE LET i == CHOOSE j \in DOMAIN str :
                      str[j] = "/" /\ \A m \in 1..(j - 1) : str[m] # "/"
         IN  <<SubSeq(str, 1, i - 1)>> \o Split(SubSeq(str, i + 1, Len(str)))

RECURSIVE Normalize(_, _)
\* path.normalize of an absolute path: `acc` is the normalized prefix
Normalize(acc, segs) ==
    IF segs = <<>> THEN acc
    ELSE LET s == Head(segs)
         IN  IF s = <<>> \/ s = <<".">>
             THEN Normalize(acc, Tail(segs))
             ELSE IF s = <<".", ".">>
             THEN Normalize(IF acc = <<>> THEN <<>> ELSE SubSeq(acc, 1, Len(acc) - 1),
                            Tail(segs))
             ELSE Normalize(Append(acc, s), Tail(segs))

RECURSIVE SplitAll(_)
SplitAll(parts) ==
    IF parts = <<>> THEN <<>> ELSE Split(Head(parts)) \o SplitAll(Tail(parts))

\* join(base, ...parts) for an absolute, normalized base
join(base, parts) == Normalize(base, SplitAll(parts))

\* dirname(path); the filesystem root is its own parent
dirname(path) == IF path = <<>> THEN <<>> ELSE SubSeq(path, 1, Len(path) - 1)

IsPrefix(p, q) == Len(p) <= Len(q) /\ SubSeq(q, 1, Len(p)) = p

\* q is p or lies below p
Under(p, q) == IsPrefix(p, q)

(***************************************************************************)
(* The filesystem and its system calls.  A world w carries the filesystem, *)
(* the system calls made so far, whether the last call succeeded, and the  *)
(* countdown to an environmental fault (negative: none).                   *)
(***************************************************************************)
NoArg == <<>>
DirNode == [kind |-> "dir", tag |-> "", arg |-> NoArg]
FileNode(tag, arg) == [kind |-> "file", tag |-> tag, arg |-> arg]

Exists(f, p) == p \in DOMAIN f
IsDir(f, p) == Exists(f, p) /\ f[p].kind = "dir"
IsFile(f, p) == Exists(f, p) /\ f[p].kind = "file"

\* exists(path): stat resolves for a file as well as for a directory
exists(w, p) == Exists(w.fs, p)

Call(op, p, ok) == [op |-> op, path |-> p, ok |-> ok]

Failed(w, op, p) ==
    [w EXCEPT !.log = Append(@, Call(op, p, FALSE)), !.ok = FALSE]

\* mkdir(path): ENOENT / ENOTDIR without a parent directory, EEXIST on an
\* existing entry
mkdir(w, p) ==
    IF w.n = 0 \/ ~IsDir(w.fs, dirname(p)) \/ Exists(w.fs, p)
    THEN Failed(w, "mkdir", p)
    ELSE [w EXCEPT !.fs = (p :> DirNode) @@ @,
                   !.log = Append(@, Call("mkdir", p, TRUE)),
                   !.n = @ - 1]

\* writeFile(path, content): creates or replaces the file
writeFile(w, p, node) ==
    IF w.n = 0 \/ ~IsDir(w.fs, dirname(p)) \/ IsDir(w.fs, p)
    THEN Failed(w, "writeFile", p)
    ELSE [w EXCEPT !.fs = (p :> node) @@ @,
                   !.log = Append(@, Call("writeFile", p, TRUE)),
                   !.n = @ - 1]

\* mutant: rm without { recursive: true } semantics, only the entry itself goes
rm_NotRecursive(w, p, emptied) ==
    IF w.n = 0
    THEN Failed(w, "rm", p)
    ELSE [w EXCEPT !.fs = [q \in DOMAIN @ \ {p} |-> @[q]],
                   !.log = Append(@, Call("rm", p, TRUE)),
                   !.n = @ - 1]

\* rm(path, { recursive: true }): the entry and everything below it.  A
\* fault may leave the tree whole or may have emptied it already.
rm(w, p, emptied) ==
    IF w.n = 0
    THEN [Failed(w, "rm", p) EXCEPT
            !.fs = IF emptied
                   THEN [q \in {x \in DOMAIN w.fs : ~(IsPrefix(p, x) /\ x # p)} |-> w.fs[q]]
                   ELSE w.fs]
    ELSE [w EXCEPT !.fs = [q \in {x \in DOMAIN @ : ~IsPrefix(p, x)} |-> @[q]],
                   !.log = Append(@, Call("rm", p, TRUE)),
                   !.n = @ - 1]

\* mutant: the path is made without asking whether it exists
RECURSIVE makeFolders_AlwaysMkdir(_, _)
makeFolders_AlwaysMkdir(w, path) ==
    LET w1 == IF ~exists(w, dirname(path))
              THEN makeFolders_AlwaysMkdir(w, dirname(path))
              ELSE w
    IN  IF ~w1.ok THEN w1 ELSE mkdir(w1, path)

RECURSIVE makeFolders(_, _)
makeFolders(w, path) ==
    LET w1 == IF ~exists(w, dirname(path)) THEN makeFolders(w, dirname(path)) ELSE w
    IN  IF ~w1.ok THEN w1
        ELSE IF ~exists(w1, path) THEN mkdir(w1, path) ELSE w1

makeFile(w, path, node) ==
    LET w1 == makeFolders(w, dirname(path))
    IN  IF ~w1.ok THEN w1 ELSE writeFile(w1, path, node)

(***************************************************************************)
(* The template table.  Each entry is a path relative to the project root  *)
(* and either null (a directory) or the text of a file; the texts are kept *)
(* apart by a tag.  Object.entries visits the entries in this order.       *)
(***************************************************************************)
T_assets == <<"a", "s", "s", "e", "t", "s">>
T_src_objects == <<"s", "r", "c", "/", "o", "b", "j", "e", "c", "t", "s">>
T_src_components == <<"s", "r", "c", "/", "c", "o", "m", "p", "o", "n", "e", "n", "t", "s">>
T_src_scenes_main_ts == <<"s", "r", "c", "/", "s", "c", "e", "n", "e", "s", "/", "m", "a", "i", "n", ".", "t", "s">>
T_src_objects_message_ts == <<"s", "r", "c", "/", "o", "b", "j", "e", "c", "t", "s", "/", "m", "e", "s", "s", "a", "g", "e", ".", "t", "s">>
T_src_scenes_other_ts == <<"s", "r", "c", "/", "s", "c", "e", "n", "e", "s", "/", "o", "t", "h", "e", "r", ".", "t", "s">>

NullEntry(path) == [path |-> path, isNull |-> TRUE, text |-> ""]
TextEntry(path, text) == [path |-> path, isNull |-> FALSE, text |-> text]

TemplateNames == {"empty", "basic"}

\* mutant: the basic template also carries the source entry module
templates_WithIndexTs(name) ==
    IF name = "empty"
    THEN << NullEntry(T_assets),
            NullEntry(T_src_objects),
            NullEntry(T_src_components),
            TextEntry(T_src_scenes_main_ts, "empty:src/scenes/main.ts") >>
    ELSE << NullEntry(T_assets),
            NullEntry(T_src_components),
            TextEntry(S_src \o <<"/">> \o S_index_ts, "index.ts"),
            TextEntry(T_src_objects_message_ts, "basic:src/objects/message.ts"),
            TextEntry(T_src_scenes_main_ts, "basic:src/scenes/main.ts"),
            TextEntry(T_src_scenes_other_ts, "basic:src/scenes/other.ts") >>

\* mutant: the --template option is not consulted, the default is always used
templates_IgnoresName(name) ==
    << NullEntry(T_assets),
       NullEntry(T_src_components),
       TextEntry(T_src_objects_message_ts, "basic:src/objects/message.ts"),
       TextEntry(T_src_scenes_main_ts, "basic:src/scenes/main.ts"),
       TextEntry(T_src_scenes_other_ts, "basic:src/scenes/other.ts") >>

templates(name) ==
    IF name = "empty"
    THEN << NullEntry(T_assets),
            NullEntry(T_src_objects),
            NullEntry(T_src_components),
            TextEntry(T_src_scenes_main_ts, "empty:src/scenes/main.ts") >>
    ELSE << NullEntry(T_assets),
            NullEntry(T_src_components),
            TextEntry(T_src_objects_message_ts, "basic:src/objects/message.ts"),
            TextEntry(T_src_scenes_main_ts, "basic:src/scenes/main.ts"),
            TextEntry(T_src_scenes_other_ts, "basic:src/scenes/other.ts") >>

(***************************************************************************)
(* The command line: process.cwd() and the arguments of the two commands.  *)
(***************************************************************************)
\* process.cwd(): an existing directory, here /h/w
Cwd == << <<"h">>, <<"w">> >>

\* <dir> of `init`: a plain name, a nested path, a scoped name, a name with
\* an upper-case letter, the working directory and its parent
RootArgs == { <<"a">>, <<"a", "/", "a">>, <<"@", "a", "/", "a">>, <<"A">>,
              <<".">>, <<".", ".">> }

\* <type> and <name> of `add`
TypeArgs == {"scene", "object", "component", "widget"}
NameArgs == { <<"a">>, <<"a", "-", "b">>, <<"a", "-", "b", "-", "c">> }

InitCommands ==
    [name : {"init"}, root : RootArgs, force : BOOLEAN, template : TemplateNames,
     nogit : BOOLEAN, type : {""}, arg : {NoArg}]

AddCommands ==
    [name : {"add"}, root : {NoArg}, force : {FALSE}, template : {""},
     nogit : {FALSE}, type : TypeArgs, arg : NameArgs]

\* const projectRoot = join(process.cwd(), root)
projectRoot(c) == join(Cwd, <<c.root>>)

(***************************************************************************)
(* The body of the init action after the collision check, as the sequence  *)
(* of its awaited statements.                                              *)
(***************************************************************************)
\* await makeFolders(path)
MakeFoldersStmt(path, step) ==
    [kind |-> "makeFolders", path |-> path, node |-> DirNode, step |-> step,
     awaited |-> TRUE]
\* await makeFile(path, content)
MakeFileStmt(path, node, step) ==
    [kind |-> "makeFile", path |-> path, node |-> node, step |-> step,
     awaited |-> TRUE]

\* mutant: the promise of runCommand is not awaited
RunCommandStmt_NotAwaited(cwd) ==
    [kind |-> "runCommand", path |-> cwd, node |-> DirNode, step |-> "vcs",
     awaited |-> FALSE]

\* await runCommand("git init", projectRoot)
RunCommandStmt(cwd) ==
    [kind |-> "runCommand", path |-> cwd, node |-> DirNode, step |-> "vcs",
     awaited |-> TRUE]

\* mutant: the entry is resolved against the working directory, not the root
TemplateStmt_FromCwd(root, entry) ==
    LET realPath == join(Cwd, Split(entry.path))
    IN  IF entry.isNull
        THEN MakeFoldersStmt(realPath, "template")
        ELSE MakeFileStmt(realPath, FileNode(entry.text, NoArg), "template")

\* one iteration of the loop over Object.entries(usedTemplate)
TemplateStmt(root, entry) ==
    LET realPath == join(root, Split(entry.path))
    IN  IF entry.isNull
        THEN MakeFoldersStmt(realPath, "template")
        ELSE MakeFileStmt(realPath, FileNode(entry.text, NoArg), "template")

\* mutant: the name depends on something that differs from one run to the next
PackageName_PerRun(root) ==
    IF PACKAGE_NAME_REGEX_test(root) /\ first = <<>> THEN root ELSE S_unnamed_game

\* name: PACKAGE_NAME_REGEX.test(root) ? root : "unnamed-game"
PackageName(root) == IF PACKAGE_NAME_REGEX_test(root) THEN root ELSE S_unnamed_game

\* mutant: the test of the nogit flag is inverted
VersionControlStmts_Inverted(c) ==
    LET root == projectRoot(c)
    IN  IF c.nogit
        THEN << MakeFileStmt(join(root, <<S_gitignore>>), FileNode(".gitignore", NoArg), "vcs"),
                RunCommandStmt(root) >>
        ELSE << >>

\* if (!opts.nogit) { .gitignore; git init }
VersionControlStmts(c) ==
    LET root == projectRoot(c)
    IN  IF ~c.nogit
        THEN << MakeFileStmt(join(root, <<S_gitignore>>), FileNode(".gitignore", NoArg), "vcs"),
                RunCommandStmt(root) >>
        ELSE << >>

\* mutant: version control comes last, after the three remaining files
InitBody_GitLast(c) ==
    LET root == projectRoot(c)
        usedTemplate == templates(c.template)
    IN  << MakeFoldersStmt(root, "scaffold"),
           MakeFileStmt(join(root, <<S_public, S_manifest_json>>),
                        FileNode("manifest.json", NoArg), "aux"),
           MakeFoldersStmt(join(root, <<S_assets>>), "scaffold") >>
        \o [i \in 1..Len(usedTemplate) |-> TemplateStmt(root, usedTemplate[i])]
        \o << MakeFileStmt(join(root, <<S_src, S_index_ts>>),
                           FileNode("index.ts", NoArg), "aux"),
              MakeFileStmt(join(root, <<S_src, S_constants_ts>>),
                           FileNode("constants.ts", NoArg), "aux"),
              MakeFileStmt(join(root, <<S_index_html>>),
                           FileNode("index.html", NoArg), "aux"),
              MakeFileStmt(join(root, <<S_prettierrc>>),
                           FileNode(".prettierrc", NoArg), "aux") >>
        \o << MakeFileStmt(join(root, <<S_package_json>>),
                           FileNode("package.json", <<PackageName(c.root)>>), "aux"),
              MakeFileStmt(join(root, <<S_tsconfig_json>>),
                           FileNode("tsconfig.json", NoArg), "aux"),
              MakeFileStmt(join(root, <<S_vite_config_js>>),
                           FileNode("vite.config.js", NoArg), "aux") >>
        \o VersionControlStmts(c)

\* mutant: directories, then the template, then every fixed file, then
\* version control
InitBody_AuxiliaryAfterTemplate(c) ==
    LET root == projectRoot(c)
        usedTemplate == templates(c.template)
    IN  << MakeFoldersStmt(root, "scaffold"),
           MakeFoldersStmt(join(root, <<S_assets>>), "scaffold") >>
        \o [i \in 1..Len(usedTemplate) |-> TemplateStmt(root, usedTemplate[i])]
        \o << MakeFileStmt(join(root, <<S_public, S_manifest_json>>),
                           FileNode("manifest.json", NoArg), "aux"),
              MakeFileStmt(join(root, <<S_src, S_index_ts>>),
                           FileNode("index.ts", NoArg), "aux"),
              MakeFileStmt(join(root, <<S_src, S_constants_ts>>),
                           FileNode("constants.ts", NoArg), "aux"),
              MakeFileStmt(join(root, <<S_index_html>>),
                           FileNode("index.html", NoArg), "aux"),
              MakeFileStmt(join(root, <<S_prettierrc>>),
                           FileNode(".prettierrc", NoArg), "aux"),
              MakeFileStmt(join(root, <<S_package_json>>),
                           FileNode("package.json", <<PackageName(c.root)>>), "aux"),
              MakeFileStmt(join(root, <<S_tsconfig_json>>),
                           FileNode("tsconfig.json", NoArg), "aux"),
              MakeFileStmt(join(root, <<S_vite_config_js>>),
                           FileNode("vite.config.js", NoArg), "aux") >>
        \o VersionControlStmts(c)

InitBody(c) ==
    LET root == projectRoot(c)
        usedTemplate == templates(c.template)
    IN  << MakeFoldersStmt(root, "scaffold"),
           MakeFileStmt(join(root, <<S_public, S_manifest_json>>),
                        FileNode("manifest.json", NoArg), "aux"),
           MakeFoldersStmt(join(root, <<S_assets>>), "scaffold") >>
        \o [i \in 1..Len(usedTemplate) |-> TemplateStmt(root, usedTemplate[i])]
        \o << MakeFileStmt(join(root, <<S_src, S_index_ts>>),
                           FileNode("index.ts", NoArg), "aux"),
              MakeFileStmt(join(root, <<S_src, S_constants_ts>>),
                           FileNode("constants.ts", NoArg), "aux"),
              MakeFileStmt(join(root, <<S_index_html>>),
                           FileNode("index.html", NoArg), "aux"),
              MakeFileStmt(join(root, <<S_prettierrc>>),
                           FileNode(".prettierrc", NoArg), "aux") >>
        \o VersionControlStmts(c)
        \o << MakeFileStmt(join(root, <<S_package_json>>),
                           FileNode("package.json", <<PackageName(c.root)>>), "aux"),
              MakeFileStmt(join(root, <<S_tsconfig_json>>),
                           FileNode("tsconfig.json", NoArg), "aux"),
              MakeFileStmt(join(root, <<S_vite_config_js>>),
                           FileNode("vite.config.js", NoArg), "aux") >>

(***************************************************************************)
(* The add action: the derived identifier and the stub it writes.          *)
(***************************************************************************)
IndexOf(seq, x) == CHOOSE i \in DOMAIN seq : seq[i] = x

toUpperCase(ch) ==
    IF ch \in Range(LowerLetters) THEN UpperLetters[IndexOf(LowerLetters, ch)] ELSE ch
toLowerCase(ch) ==
    IF ch \in Range(UpperLetters) THEN LowerLetters[IndexOf(UpperLetters, ch)] ELSE ch

IsLetter(ch) == ch \in Range(LowerLetters) \cup Range(UpperLetters)

\* str.replace(/-[a-zA-Z]/, (m) => m[1].toUpperCase()): the pattern has no
\* g flag, so only the leftmost match is replaced
normalizeName(str) ==
    LET hits == {i \in 1..(Len(str) - 1) : str[i] = "-" /\ IsLetter(str[i + 1])}
    IN  IF hits = {} THEN str
        ELSE LET i == CHOOSE j \in hits : \A m \in hits : j <= m
             IN  SubSeq(str, 1, i - 1) \o <<toUpperCase(str[i + 1])>>
                 \o SubSeq(str, i + 2, Len(str))

\* str[0].toUpperCase() + str.substring(1).toLowerCase()
capitalize(str) ==
    <<toUpperCase(str[1])>> \o [i \in 1..(Len(str) - 1) |-> toLowerCase(str[i + 1])]

AddTypes == {"scene", "object", "component"}

\* mutant: the type is not checked
TypeIsValid_AcceptsAnything(type) == TRUE

\* ["scene", "object", "component"].includes(type)
TypeIsValid(type) == type \in AddTypes

\* exists(join(process.cwd(), "src", "scenes"))
InsideProject(w) == exists(w, join(Cwd, <<S_src, S_scenes>>))

\* mutant: every stub goes to the scenes folder
AddFolder_AlwaysScenes(type) == S_scenes

AddFolder(type) ==
    IF type = "scene" THEN S_scenes
    ELSE IF type = "object" THEN S_objects
    ELSE S_components

\* join(process.cwd(), "src", <folder>, `${name}.ts`)
AddPath(c) == join(Cwd, <<S_src, AddFolder(c.type), c.arg \o S_dot_ts>>)

\* the stub: its text is fixed per type up to the interpolated names
AddStub(c) ==
    LET variableName == normalizeName(c.arg)
    IN  IF c.type = "component"
        THEN FileNode("component", <<variableName, c.arg, capitalize(variableName)>>)
        ELSE FileNode(c.type, <<variableName>>)

(***************************************************************************)
(* The world a statement runs in.                                          *)
(***************************************************************************)
World(n) == [fs |-> fs, log |-> log, ok |-> TRUE, n |-> n]

FaultPositions == -1..MaxFaultPos

(***************************************************************************)
(* The filesystem before the command: the working directory, and at most   *)
(* MaxOld further entries (with the directories above them) among the      *)
(* places the command looks at.                                            *)
(***************************************************************************)
S_old == <<"o", "l", "d">>
OldFile == FileNode("old", NoArg)

BaseFs == (<<>> :> DirNode) @@ (<<Cwd[1]>> :> DirNode) @@ (Cwd :> DirNode)

Prefixes(p) == {SubSeq(p, 1, k) : k \in 0..Len(p)}

Places(c) ==
    IF c.name = "init"
    THEN LET root == projectRoot(c)
         IN  Prefixes(root) \cup {root \o <<S_old>>, root \o <<S_src>>,
                                  root \o <<S_src, S_index_ts>>}
    ELSE {Cwd \o <<S_src>>, Cwd \o <<S_src, S_scenes>>,
          Cwd \o <<S_src, S_objects>>, AddPath(c)}

WellFormed(f) ==
    \A p \in DOMAIN f : p = <<>> \/ IsDir(f, dirname(p))

InitialFilesystems(c) ==
    LET places == Places(c) \ DOMAIN BaseFs
        seeds == UNION {[S -> {DirNode, OldFile}] :
                          S \in {T \in SUBSET places : Cardinality(T) <= MaxOld}}
        above(seed) == (UNION {Prefixes(p) : p \in DOMAIN seed})
                          \ (DOMAIN seed \cup DOMAIN BaseFs)
        build(seed) == seed @@ [p \in above(seed) |-> DirNode] @@ BaseFs
    IN  {f \in {build(seed) : seed \in seeds} : WellFormed(f)}

\* makeFolders is not being followed step by step
NoActivation == [path |-> <<>>, frames |-> <<>>, calls |-> 0]

Init ==
    /\ cmd \in InitCommands \cup AddCommands
    /\ fs \in InitialFilesystems(cmd)
    /\ fs0 = fs
    /\ log = <<>>
    /\ pc = IF cmd.name = "init" THEN "collision" ELSE "addType"
    /\ ip = 1
    /\ inflight = {}
    /\ gitCode = -1
    /\ exitCode = -1
    /\ first = <<>>
    /\ mf = NoActivation

(***************************************************************************)
(* The init action.                                                        *)
(***************************************************************************)
\* mutant: the force flag is not consulted, an existing root is always removed
CollisionCheck_IgnoresForce(w, c) ==
    IF exists(w, projectRoot(c)) THEN "rm" ELSE "proceed"

\* mutant: the error is printed but the process is not ended
CollisionCheck_NoExit(w, c) ==
    IF exists(w, projectRoot(c))
    THEN IF ~c.force THEN "proceed" ELSE "rm"
    ELSE "proceed"

\* if (await exists(projectRoot)) { if (!opts.force) process.exit(1); rm }
CollisionCheck(w, c) ==
    IF exists(w, projectRoot(c))
    THEN IF ~c.force THEN "exit" ELSE "rm"
    ELSE "proceed"

InitCollisionCheck ==
    /\ pc = "collision"
    /\ LET verdict == CollisionCheck(World(-1), cmd)
       IN  IF verdict = "exit"
           THEN /\ pc' = "exit1"
                /\ exitCode' = 1
                /\ UNCHANGED <<fs, log>>
           ELSE IF verdict = "rm"
           THEN \E n \in {-1, 0}, emptied \in BOOLEAN :
                   LET w == rm(World(n), projectRoot(cmd), emptied)
                   IN  /\ fs' = w.fs
                       /\ log' = w.log
                       /\ pc' = IF w.ok THEN "body" ELSE "rejected"
                       /\ UNCHANGED exitCode
           ELSE /\ pc' = "body"
                /\ UNCHANGED <<fs, log, exitCode>>
    /\ UNCHANGED <<cmd, fs0, ip, inflight, gitCode, first, mf>>

\* the action is suspended on the promise of a statement it awaits
Suspended == \E k \in inflight : InitBody(cmd)[k].awaited

\* the action calls its next statement: the operation starts, and an awaited
\* one suspends the action until its promise settles
InitCall ==
    /\ pc = "body"
    /\ ~Suspended
    /\ ip <= Len(InitBody(cmd))
    /\ inflight' = inflight \cup {ip}
    /\ ip' = ip + 1
    /\ UNCHANGED <<cmd, fs, fs0, log, pc, gitCode, exitCode, first, mf>>

\* a pending statement of the given kind, whose operation now finishes
AtStatement(k, kind) ==
    /\ pc \in {"body", "done"}
    /\ k \in inflight
    /\ InitBody(cmd)[k].kind = kind

\* mutant: a failed call is caught and the action goes on
Continue_CatchesFailure(w, k) ==
    /\ fs' = w.fs
    /\ log' = w.log
    /\ inflight' = inflight \ {k}
    /\ UNCHANGED pc

\* the promise of statement k settles: the action resumes after the await,
\* or the rejection propagates out of the action
Continue(w, k) ==
    /\ fs' = w.fs
    /\ log' = w.log
    /\ inflight' = inflight \ {k}
    /\ pc' = IF w.ok THEN pc ELSE "rejected"

InitMakeFolders ==
    \E k \in inflight :
        /\ AtStatement(k, "makeFolders")
        /\ \E n \in FaultPositions :
              Continue(makeFolders(World(n), InitBody(cmd)[k].path), k)
        /\ UNCHANGED <<cmd, fs0, ip, gitCode, exitCode, first, mf>>

InitMakeFile ==
    \E k \in inflight :
        /\ AtStatement(k, "makeFile")
        /\ \E n \in FaultPositions :
              Continue(makeFile(World(n), InitBody(cmd)[k].path, InitBody(cmd)[k].node), k)
        /\ UNCHANGED <<cmd, fs0, ip, gitCode, exitCode, first, mf>>

\* what `git init` can do: fail to spawn, or exit with a code
GitOutcomes ==
    {[event |-> "error", code |-> -1],
     [event |-> "exit", code |-> 0],
     [event |-> "exit", code |-> 128]}

\* child.on("error", rej); child.on("exit", res)
runCommandSettles(outcome) ==
    IF outcome.event = "error" THEN "reject" ELSE "resolve"

\* the effect of the spawned `git init` on its working directory
GitInit(w, cwd, outcome) ==
    IF outcome.event = "error"
    THEN Failed(w, "exec", cwd)
    ELSE [w EXCEPT !.fs = IF outcome.code = 0
                          THEN (join(cwd, <<S_dot_git>>) :> DirNode) @@ @
                          ELSE @,
                   !.log = Append(@, Call("exec", cwd, TRUE))]

InitRunCommand ==
    \E k \in inflight :
        /\ AtStatement(k, "runCommand")
        /\ \E outcome \in GitOutcomes :
              LET w == GitInit(World(-1), InitBody(cmd)[k].path, outcome)
              IN  /\ fs' = w.fs
                  /\ log' = w.log
                  /\ inflight' = inflight \ {k}
                  /\ gitCode' = outcome.code
                  /\ pc' = IF runCommandSettles(outcome) = "reject" THEN "rejected" ELSE pc
        /\ UNCHANGED <<cmd, fs0, ip, exitCode, first, mf>>

\* console.log(`done scaffolded project in ...`) and the action returns
InitSummary ==
    /\ pc = "body"
    /\ ~Suspended
    /\ ip = Len(InitBody(cmd)) + 1
    /\ pc' = "done"
    /\ log' = Append(log, Call("summary", projectRoot(cmd), TRUE))
    /\ UNCHANGED <<cmd, fs, fs0, ip, inflight, gitCode, exitCode, first, mf>>

(***************************************************************************)
(* The add action.                                                         *)
(***************************************************************************)
AddTypeCheck ==
    /\ pc = "addType"
    /\ pc' = IF ~TypeIsValid(cmd.type) THEN "exit1" ELSE "addProject"
    /\ exitCode' = IF ~TypeIsValid(cmd.type) THEN 1 ELSE exitCode
    /\ UNCHANGED <<cmd, fs, fs0, log, ip, inflight, gitCode, first, mf>>

AddProjectCheck ==
    /\ pc = "addProject"
    /\ pc' = IF ~InsideProject(World(-1)) THEN "exit1" ELSE "addFile"
    /\ exitCode' = IF ~InsideProject(World(-1)) THEN 1 ELSE exitCode
    /\ UNCHANGED <<cmd, fs, fs0, log, ip, inflight, gitCode, first, mf>>

AddMakeFile ==
    /\ pc = "addFile"
    /\ \E n \in FaultPositions :
          LET w == makeFile(World(n), AddPath(cmd), AddStub(cmd))
          IN  /\ fs' = w.fs
              /\ log' = w.log
              /\ pc' = IF w.ok THEN "done" ELSE "rejected"
    /\ UNCHANGED <<cmd, fs0, ip, inflight, gitCode, exitCode, first, mf>>

(***************************************************************************)
(* The end of the process.                                                 *)
(***************************************************************************)
\* what the runtime does with a promise rejection that nothing handles: it
\* ends the process with status 1 (Node.js 15 and later), or only warns and
\* lets it end with status 0 (earlier versions)
UnhandledRejectionCodes == {0, 1}

\* neither action has a catch and program.parse() does not await them
UnhandledRejection ==
    /\ pc = "rejected"
    /\ exitCode = -1
    /\ exitCode' \in UnhandledRejectionCodes
    /\ UNCHANGED <<cmd, fs, fs0, log, pc, ip, inflight, gitCode, first, mf>>

\* the action has returned and nothing is pending: the process ends
ProcessEnds ==
    /\ pc = "done"
    /\ inflight = {}
    /\ exitCode = -1
    /\ exitCode' = 0
    /\ UNCHANGED <<cmd, fs, fs0, log, pc, ip, inflight, gitCode, first, mf>>

Next ==
    \/ InitCollisionCheck
    \/ InitCall
    \/ InitMakeFolders
    \/ InitMakeFile
    \/ InitRunCommand
    \/ InitSummary
    \/ AddTypeCheck
    \/ AddProjectCheck
    \/ AddMakeFile
    \/ UnhandledRejection
    \/ ProcessEnds

Spec == Init /\ [][Next]_vars

(***************************************************************************)
(* The same init command run again from the same starting filesystem.      *)
(***************************************************************************)
\* what a run generated: the tree it left, and how `git init` ended
Generated == [fs |-> fs, gitCode |-> gitCode]

Rerun ==
    /\ cmd.name = "init"
    /\ pc = "done"
    /\ exitCode = 0
    /\ ~Exists(fs0, projectRoot(cmd))
    /\ Len(first) < MaxReruns
    /\ first' = Append(first, Generated)
    /\ fs' = fs0
    /\ log' = <<>>
    /\ pc' = "collision"
    /\ ip' = 1
    /\ inflight' = {}
    /\ gitCode' = -1
    /\ exitCode' = -1
    /\ UNCHANGED <<cmd, fs0, mf>>

NextRerun == Next \/ Rerun

SpecRerun == Init /\ [][NextRerun]_vars

(***************************************************************************)
(* makeFolders step by step: an activation tests the parent of its path,   *)
(* calls itself on the parent when that is missing, then tests its path    *)
(* and makes it when it is missing.                                        *)
(***************************************************************************)
\* the paths makeFolders is called with: the root, the assets directory and
\* the template directories of init, the directory of a file in makeFile,
\* and every ancestor of these down to the filesystem root
MakeFoldersArguments(c) ==
    Places(c) \cup {dirname(p) : p \in Places(c)}
              \cup {join(projectRoot(c), <<S_src, S_scenes>>)}

Activation(path) == [path |-> path, at |-> "parent"]

InitMakeFoldersRun ==
    /\ cmd \in InitCommands \cup AddCommands
    /\ fs \in InitialFilesystems(cmd)
    /\ fs0 = fs
    /\ log = <<>>
    /\ pc = "makeFolders"
    /\ ip = 1
    /\ inflight = {}
    /\ gitCode = -1
    /\ exitCode = -1
    /\ first = <<>>
    /\ \E p \in MakeFoldersArguments(cmd) :
          mf = [path |-> p, frames |-> <<Activation(p)>>, calls |-> 0]

\* the activation that is running
Top == mf.frames[Len(mf.frames)]

\* mutant: the recursive call is made on the path itself
RecursiveArgument_SamePath(path) == path

\* await makeFolders(dirname(path)): what the recursive call is made on
RecursiveArgument(path) == dirname(path)

\* if (!(await exists(dirname(path)))) await makeFolders(dirname(path));
MakeFoldersTestParent ==
    /\ pc = "makeFolders"
    /\ mf.frames # <<>>
    /\ Top.at = "parent"
    /\ IF ~exists(World(-1), dirname(Top.path))
       THEN /\ mf.calls < MaxCalls
            /\ mf' = [mf EXCEPT !.frames = [@ EXCEPT ![Len(@)].at = "self"]
                                             \o <<Activation(RecursiveArgument(Top.path))>>,
                                !.calls = @ + 1]
       ELSE mf' = [mf EXCEPT !.frames = [@ EXCEPT ![Len(@)].at = "self"]]
    /\ UNCHANGED <<cmd, fs, fs0, log, pc, ip, inflight, gitCode, exitCode, first>>

\* the activation returns to its caller, the outermost one to the program
Return == SubSeq(mf.frames, 1, Len(mf.frames) - 1)

\* if (!(await exists(path))) await mkdir(path);
MakeFoldersMakePath ==
    /\ pc = "makeFolders"
    /\ mf.frames # <<>>
    /\ Top.at = "self"
    /\ IF ~exists(World(-1), Top.path)
       THEN \E n \in {-1, 0} :
               LET w == mkdir(World(n), Top.path)
               IN  /\ fs' = w.fs
                   /\ log' = w.log
                   /\ mf' = [mf EXCEPT !.frames = IF w.ok THEN Return ELSE <<>>]
                   /\ pc' = IF ~w.ok THEN "rejected"
                            ELSE IF Return = <<>> THEN "returned" ELSE pc
       ELSE /\ mf' = [mf EXCEPT !.frames = Return]
            /\ pc' = IF Return = <<>> THEN "returned" ELSE pc
            /\ UNCHANGED <<fs, log>>
    /\ UNCHANGED <<cmd, fs0, ip, inflight, gitCode, exitCode, first>>

NextMakeFolders ==
    \/ MakeFoldersTestParent
    \/ MakeFoldersMakePath

\* every step is the continuation of a promise that has settled: the event
\* loop runs it
SpecMakeFolders ==
    InitMakeFoldersRun /\ [][NextMakeFolders]_vars /\ WF_vars(NextMakeFolders)

(***************************************************************************)
(* Properties.                                                             *)
(***************************************************************************)
IsInit == cmd.name = "init"
IsAdd == cmd.name = "add"
Root == projectRoot(cmd)

\* the successful mkdir / writeFile calls of the run that target p
Creations(p) ==
    {i \in DOMAIN log : log[i].ok /\ log[i].op \in {"mkdir", "writeFile"} /\ log[i].path = p}

\* C1: init on a root that exists, without force, stops at the collision
\* check: the filesystem stays what it was when the command started and no
\* system call that changes it is ever made.
C1_CollisionAbortsUntouched ==
    (IsInit /\ ~cmd.force /\ Exists(fs0, Root))
        => (fs = fs0 /\ log = <<>> /\ pc \in {"collision", "exit1"})

W1_AbortedOnExistingRoot ==
    /\ IsInit /\ ~cmd.force /\ pc = "exit1"
    /\ Exists(fs0, Root \o <<S_old>>)
    /\ fs = fs0

\* C2: init with force on an existing root removes the whole subtree first:
\* rm of the root is the first system call and precedes every mkdir,
\* writeFile and exec; right after it nothing is left at or below the root;
\* and when the run is done, an entry that was there before the run exists
\* only if the run created it again after the removal.
C2_ForceRemovesBeforeRegenerating ==
    (IsInit /\ cmd.force /\ Exists(fs0, Root)) =>
        /\ \A i \in DOMAIN log :
              log[i].op \in {"mkdir", "writeFile", "exec", "summary"}
                 => (i > 1 /\ log[1] = Call("rm", Root, TRUE))
        /\ log = <<Call("rm", Root, TRUE)>>
              => \A p \in DOMAIN fs : ~Under(Root, p)
        /\ pc = "done"
              => \A p \in DOMAIN fs0 :
                    (Under(Root, p) /\ Exists(fs, p))
                       => /\ \E i \in Creations(p) : i > 1
                          /\ fs[p] # OldFile

W2_ForcedOverOldTree ==
    /\ IsInit /\ cmd.force /\ pc = "done"
    /\ fs0[Root] = DirNode
    /\ Exists(fs0, Root \o <<S_old>>)
    /\ Exists(fs0, Root \o <<S_src, S_index_ts>>)
    /\ ~Exists(fs, Root \o <<S_old>>)
    /\ fs[Root \o <<S_src, S_index_ts>>] = FileNode("index.ts", NoArg)

(***************************************************************************)
(* The tree a project is specified to have, written out path by path.      *)
(***************************************************************************)
S_main_ts == <<"m", "a", "i", "n", ".", "t", "s">>
S_other_ts == <<"o", "t", "h", "e", "r", ".", "t", "s">>
S_message_ts == <<"m", "e", "s", "s", "a", "g", "e", ".", "t", "s">>

\* the fixed auxiliary files, each with the tag of its text
AuxiliaryFiles(root) ==
    (root \o <<S_public, S_manifest_json>> :> "manifest.json")
    @@ (root \o <<S_index_html>> :> "index.html")
    @@ (root \o <<S_src, S_index_ts>> :> "index.ts")
    @@ (root \o <<S_src, S_constants_ts>> :> "constants.ts")
    @@ (root \o <<S_prettierrc>> :> ".prettierrc")
    @@ (root \o <<S_tsconfig_json>> :> "tsconfig.json")
    @@ (root \o <<S_vite_config_js>> :> "vite.config.js")
    @@ (root \o <<S_package_json>> :> "package.json")

\* the files of a template
TemplateFiles(root, template) ==
    IF template = "empty"
    THEN (root \o <<S_src, S_scenes, S_main_ts>> :> "empty:src/scenes/main.ts")
    ELSE (root \o <<S_src, S_objects, S_message_ts>> :> "basic:src/objects/message.ts")
         @@ (root \o <<S_src, S_scenes, S_main_ts>> :> "basic:src/scenes/main.ts")
         @@ (root \o <<S_src, S_scenes, S_other_ts>> :> "basic:src/scenes/other.ts")

IgnoreFile(root, nogit) ==
    IF nogit THEN <<>> ELSE (root \o <<S_gitignore>> :> ".gitignore")

ExpectedFiles(root, template, nogit) ==
    AuxiliaryFiles(root) @@ TemplateFiles(root, template) @@ IgnoreFile(root, nogit)

\* the directories: the root, those of the template, those the files need,
\* and the repository
ExpectedDirectories(root, nogit) ==
    {root, root \o <<S_public>>, root \o <<S_assets>>, root \o <<S_src>>,
     root \o <<S_src, S_objects>>, root \o <<S_src, S_components>>,
     root \o <<S_src, S_scenes>>}
    \cup (IF nogit THEN {} ELSE {root \o <<S_dot_git>>})

\* every step of init succeeded: the summary was reached and, when version
\* control was asked for, `git init` exited with 0
InitSucceeded == IsInit /\ pc = "done" /\ (cmd.nogit \/ gitCode = 0)

\* C3: after a successful init on a root that did not exist, for every
\* template and every combination of flags, the files below the root are
\* exactly the auxiliary files, the template's files and (unless nogit) the
\* ignore-file, each holding its specified text, and the directories are
\* exactly those of the project (with the repository unless nogit).
C3_FreshRootHoldsExactlyTheProject ==
    (InitSucceeded /\ ~Exists(fs0, Root)) =>
        LET below == {p \in DOMAIN fs : Under(Root, p)}
            expected == ExpectedFiles(Root, cmd.template, cmd.nogit)
        IN  /\ {p \in below : IsFile(fs, p)} = DOMAIN expected
            /\ \A p \in DOMAIN expected : fs[p].tag = expected[p]
            /\ {p \in below : IsDir(fs, p)} = ExpectedDirectories(Root, cmd.nogit)

W3_FreshBasicProjectWithRepository ==
    /\ InitSucceeded /\ ~Exists(fs0, Root)
    /\ cmd.template = "basic" /\ ~cmd.nogit
    /\ IsFile(fs, Root \o <<S_src, S_scenes, S_other_ts>>)
    /\ IsDir(fs, Root \o <<S_dot_git>>)

PackageJsonPath == Root \o <<S_package_json>>

\* the base name of a path string: its last piece that is not empty
BaseName(str) ==
    LET pieces == SelectSeq(Split(str), LAMBDA piece : piece # <<>>)
    IN  IF pieces = <<>> THEN <<>> ELSE pieces[Len(pieces)]

\* C4: once init has written the package descriptor, the name declared in it
\* is the base name of the root argument if that base name matches the
\* package-identifier pattern, and 'unnamed-game' otherwise.
C4_PackageNameIsBaseNameIffValid ==
    (IsInit /\ Creations(PackageJsonPath) # {}) =>
        fs[PackageJsonPath].arg
            = << IF PACKAGE_NAME_REGEX_test(BaseName(cmd.root))
                 THEN BaseName(cmd.root)
                 ELSE S_unnamed_game >>

\* the calls that spawned `git init`
Execs == {i \in DOMAIN log : log[i].op = "exec"}

\* C5: when `git init` fails to spawn or exits with a non-zero status, init
\* fails there: the spawn is its last step and it does not go on to the
\* remaining statements or to the summary.
C5_GitFailureFailsInit ==
    (IsInit /\ \E i \in Execs : ~log[i].ok \/ gitCode # 0) =>
        (pc = "rejected" /\ log[Len(log)].op = "exec")

\* C6 as stated: when `git init` is invoked, every template file and every
\* auxiliary file has already been written.
C6_AllFilesWrittenBeforeGit ==
    IsInit =>
        \A i \in Execs :
            \A p \in DOMAIN AuxiliaryFiles(Root) \cup DOMAIN TemplateFiles(Root, cmd.template) :
                \E j \in Creations(p) : j < i

\* what init has written when it spawns `git init`, and what it writes after
BeforeGit(root, template) ==
    DOMAIN TemplateFiles(root, template)
    \cup {root \o <<S_public, S_manifest_json>>, root \o <<S_src, S_index_ts>>,
          root \o <<S_src, S_constants_ts>>, root \o <<S_index_html>>,
          root \o <<S_prettierrc>>, root \o <<S_gitignore>>}
AfterGit(root) ==
    {root \o <<S_package_json>>, root \o <<S_tsconfig_json>>, root \o <<S_vite_config_js>>}

\* C6 amended: when `git init` is invoked, every template file, the
\* manifest, the source entry module, the constants module, the HTML entry,
\* the formatting config and the ignore-file have been written, and the
\* package descriptor, the type/compile config and the build config have
\* not: they are written only after the command has exited, so a spawn
\* failure leaves the tree on disk without these three.
C6_WrittenBeforeGitExceptLastThree ==
    IsInit =>
        \A i \in Execs :
            /\ \A p \in BeforeGit(Root, cmd.template) :
                  /\ \E j \in Creations(p) : j < i
                  /\ IsFile(fs, p)
            /\ \A p \in AfterGit(Root) :
                  \A j \in DOMAIN log : log[j].path = p => j > i
            /\ ~log[i].ok =>
                  /\ pc = "rejected" /\ i = Len(log)
                  /\ \A p \in AfterGit(Root) : ~Exists(fs, p)

W6_GitFailedToSpawn ==
    /\ IsInit /\ pc = "rejected"
    /\ Execs # {} /\ ~log[Len(log)].ok /\ log[Len(log)].op = "exec"
    /\ IsFile(fs, Root \o <<S_gitignore>>)
    /\ ~Exists(fs, PackageJsonPath)

\* writes of the ignore-file, attempted or done
IgnoreWrites ==
    {i \in DOMAIN log : log[i].op = "writeFile" /\ log[i].path = Root \o <<S_gitignore>>}

\* C7: init writes the ignore-file and invokes `git init` only when nogit is
\* false, a run with nogit false that reaches its end has done both, the
\* ignore-file is written before the command is invoked, and with nogit true
\* the project holds neither ignore-file nor repository.
C7_VersionControlIffNotNogit ==
    IsInit =>
        /\ (IgnoreWrites # {} \/ Execs # {}) => ~cmd.nogit
        /\ pc = "done" => (~cmd.nogit => (IgnoreWrites # {} /\ Execs # {}))
        /\ \A i \in Execs : i - 1 \in IgnoreWrites /\ log[i - 1].ok
        /\ (cmd.nogit /\ pc \in {"body", "done"}) =>
              /\ ~Exists(fs, Root \o <<S_gitignore>>)
              /\ ~Exists(fs, Root \o <<S_dot_git>>)

W7_IgnoreFileThenGit ==
    /\ IsInit /\ ~cmd.nogit /\ pc = "done"
    /\ IsFile(fs, Root \o <<S_gitignore>>)
    /\ IsDir(fs, Root \o <<S_dot_git>>)

\* C8 as stated: every mkdir and every writeFile of init targets the project
\* root or a path below it.
C8_EveryWriteUnderRoot ==
    IsInit =>
        \A i \in DOMAIN log :
            log[i].op \in {"mkdir", "writeFile"} => Under(Root, log[i].path)

\* p lies strictly above the root
AboveRoot(p) == IsPrefix(p, Root) /\ p # Root

\* C8 amended: every mkdir and every writeFile of init targets the project
\* root or a path below it, except that init first creates each missing
\* ancestor directory of the root; nothing else outside the root is created
\* or written, and what exists outside the root is otherwise what it was.
C8_WritesUnderRootOrMissingAncestor ==
    IsInit =>
        /\ \A i \in DOMAIN log :
              log[i].op \in {"mkdir", "writeFile"} =>
                  \/ Under(Root, log[i].path)
                  \/ /\ log[i].op = "mkdir"
                     /\ AboveRoot(log[i].path)
                     /\ ~Exists(fs0, log[i].path)
        /\ \A p \in DOMAIN fs \cup DOMAIN fs0 :
              ~Under(Root, p) =>
                  \/ Exists(fs, p) /\ Exists(fs0, p) /\ fs[p] = fs0[p]
                  \/ AboveRoot(p) /\ ~Exists(fs0, p) /\ IsDir(fs, p)

W8_MissingAncestorCreated ==
    /\ IsInit /\ pc = "done"
    /\ \E i \in DOMAIN log :
          log[i] = Call("mkdir", dirname(Root), TRUE) /\ ~Exists(fs0, dirname(Root))

\* C9: in a run of init that reaches its end, each auxiliary file is written
\* exactly once and holds its fixed text (the package descriptor's name
\* being the root argument or the fallback), whatever the template; and no
\* entry of any template resolves to the path of an auxiliary file.
C9_AuxiliaryWrittenExactlyOnce ==
    (IsInit /\ pc = "done") =>
        LET aux == AuxiliaryFiles(Root)
        IN  /\ \A p \in DOMAIN aux :
                  /\ Cardinality({i \in DOMAIN log :
                                    log[i].op = "writeFile" /\ log[i].path = p}) = 1
                  /\ IsFile(fs, p) /\ fs[p].tag = aux[p]
                  /\ fs[p].arg \in IF p = PackageJsonPath
                                  THEN {<<cmd.root>>, <<S_unnamed_game>>}
                                  ELSE {NoArg}
            /\ \A t \in TemplateNames :
                  \A k \in DOMAIN templates(t) :
                      join(Root, Split(templates(t)[k].path)) \notin DOMAIN aux

W9_AuxiliaryWritten ==
    /\ IsInit /\ pc = "done"
    /\ \A p \in DOMAIN AuxiliaryFiles(Root) : Creations(p) # {}
    /\ cmd.template = "empty"

\* C10: whenever the type of add is not scene, object or component, and
\* whenever there is no directory src/scenes under the working directory,
\* add is rejected: it never completes and the filesystem stays what it was
\* when the command started.
C10_AddRejectedOutsideProject ==
    (IsAdd /\ (cmd.type \notin {"scene", "object", "component"}
               \/ ~IsDir(fs0, Cwd \o <<S_src, S_scenes>>))) =>
        (fs = fs0 /\ pc # "done")

\* the folder of each kind and the file add is to write, as the
\* documentation gives them
KindFolder ==
    [scene |-> <<"s", "c", "e", "n", "e", "s">>,
     object |-> <<"o", "b", "j", "e", "c", "t", "s">>,
     component |-> <<"c", "o", "m", "p", "o", "n", "e", "n", "t", "s">>]
AddTarget ==
    Cwd \o << <<"s", "r", "c">>, KindFolder[cmd.type], cmd.arg \o <<".", "t", "s">> >>
FileWrites == {i \in DOMAIN log : log[i].op = "writeFile"}

\* C11: an add that completes made exactly one file write, to
\* src/<folder of the kind>/<name>.ts, which now holds the stub of that
\* kind; every other regular file is what it was before the command and no
\* other file appeared; and add exits early only for an unknown kind or a
\* missing src/scenes, never because the target already existed.
C11_AddWritesExactlyItsFile ==
    /\ (IsAdd /\ pc = "done") =>
          /\ Cardinality(FileWrites) = 1
          /\ \A i \in FileWrites : log[i].path = AddTarget /\ log[i].ok
          /\ IsFile(fs, AddTarget) /\ fs[AddTarget].tag = cmd.type
          /\ \A p \in DOMAIN fs0 \ {AddTarget} :
                IsFile(fs0, p) => (p \in DOMAIN fs /\ fs[p] = fs0[p])
          /\ \A p \in DOMAIN fs \ {AddTarget} :
                IsFile(fs, p) => (p \in DOMAIN fs0 /\ fs0[p] = fs[p])
    /\ (IsAdd /\ pc = "exit1") =>
          (cmd.type \notin DOMAIN KindFolder \/ ~Exists(fs0, Cwd \o <<S_src, S_scenes>>))

W11_AddReplacedExistingFile ==
    /\ IsAdd /\ pc = "done"
    /\ cmd.type = "object"
    /\ IsFile(fs0, AddTarget) /\ fs0[AddTarget] = OldFile
    /\ fs[AddTarget] # OldFile

\* C12: in the identifier that add puts in the stub, every hyphen followed
\* by a letter of the name has been replaced: no hyphen followed by a letter
\* remains.
C12_NoHyphenLetterRemains ==
    (IsAdd /\ pc = "done") =>
        LET identifier == fs[AddTarget].arg[1]
        IN  \A i \in 1..(Len(identifier) - 1) :
                ~(identifier[i] = "-"
                  /\ identifier[i + 1] \in Range(LowerLetters) \cup Range(UpperLetters))

\* the three cases in which the documentation has the process end with 1
RefusedInvocation ==
    \/ IsInit /\ Exists(fs0, Root) /\ ~cmd.force
    \/ IsAdd /\ cmd.type \notin {"scene", "object", "component"}
    \/ IsAdd /\ ~Exists(fs0, Cwd \o <<S_src, S_scenes>>)
SomeCallFailed == \E i \in DOMAIN log : ~log[i].ok

\* C13 as stated: the process ends with exit code 1 exactly when init found
\* its target without force, or add got an unknown type, or add found no
\* src/scenes; every other invocation ends with exit code 0.
C13_ExitOneExactlyWhenRefused ==
    (exitCode # -1) =>
        /\ exitCode \in {0, 1}
        /\ (exitCode = 1) <=> RefusedInvocation

\* C13, amended: a refused invocation ends with 1 and an invocation that
\* runs to its end ends with 0 (whatever `git init` exited with); an
\* invocation in which a filesystem call or the spawn of git failed ends by
\* an unhandled rejection, with the status the runtime gives to that (1, or
\* 0 on old runtimes): so exit code 1 also occurs outside the three cases,
\* but only after a failed call.
C13_ExitOneWhenRefusedOrRejected ==
    (exitCode # -1) =>
        /\ exitCode \in {0, 1}
        /\ RefusedInvocation => (exitCode = 1 /\ log = <<>>)
        /\ (~RefusedInvocation /\ ~SomeCallFailed) => (exitCode = 0 /\ pc = "done")
        /\ (~RefusedInvocation /\ SomeCallFailed) => pc = "rejected"
        /\ (exitCode = 1) => (RefusedInvocation \/ SomeCallFailed)

W13_ExitOneAfterFailedWrite ==
    /\ IsInit /\ ~RefusedInvocation
    /\ exitCode = 1
    /\ \E i \in DOMAIN log : log[i].op = "writeFile" /\ ~log[i].ok

C15_OneOperationAtATime ==
    /\ Cardinality(inflight) <= 1
    /\ \A k \in inflight : k = ip - 1
    /\ pc = "done" => inflight = {}

W15_GitInitRunning ==
    /\ IsInit /\ pc = "body"
    /\ log # <<>>
    /\ log[Len(log)] = [op |-> "writeFile", path |-> Root \o <<S_gitignore>>, ok |-> TRUE]
    /\ inflight # {}

\* the directories a template names, and everything a template names
TemplateDirectories(root, template) ==
    {root \o <<S_assets>>, root \o <<S_src, S_components>>}
    \cup (IF template = "empty" THEN {root \o <<S_src, S_objects>>} ELSE {})
TemplateEntries(root, template) ==
    DOMAIN TemplateFiles(root, template) \cup TemplateDirectories(root, template)

AuxiliaryWrites ==
    {i \in DOMAIN log : log[i].op = "writeFile" /\ log[i].path \in DOMAIN AuxiliaryFiles(Root)}
VersionControlCalls ==
    {i \in DOMAIN log : \/ log[i].op = "exec"
                        \/ log[i].op = "writeFile" /\ log[i].path = Root \o <<S_gitignore>>}

\* C16 as stated: init goes through directory scaffolding, template
\* expansion, the fixed auxiliary files and version control in this order:
\* an auxiliary file is written only when every entry of the chosen template
\* has been created, and before every call of the version-control step.
C16_AuxiliaryAfterTemplateBeforeGit ==
    IsInit =>
        \A i \in AuxiliaryWrites :
            /\ \A t \in TemplateEntries(Root, cmd.template) :
                  \E j \in Creations(t) : j < i
            /\ \A v \in VersionControlCalls : i < v

\* the position of a file write or of the command in the order init follows
StepOfCall(call) ==
    IF call.op = "exec" \/ call.path = Root \o <<S_gitignore>> THEN 4
    ELSE IF call.path = Root \o <<S_public, S_manifest_json>> THEN 1
    ELSE IF call.path \in DOMAIN TemplateFiles(Root, cmd.template) THEN 2
    ELSE IF call.path \in {Root \o <<S_package_json>>, Root \o <<S_tsconfig_json>>,
                           Root \o <<S_vite_config_js>>} THEN 5
    ELSE 3
OrderedCalls == {i \in DOMAIN log : log[i].op \in {"writeFile", "exec"}}

\* C16, amended: init creates the root directory, writes the manifest,
\* creates the assets directory, materializes the template, writes the
\* source entry module, the constants module, the HTML entry and the
\* formatting config, then writes the ignore-file and runs `git init`, and
\* last writes the package descriptor, the compile config and the build
\* config.  So the manifest is written before any template entry exists and
\* three auxiliary files after version control; every other auxiliary file
\* is written after every template entry has been created.
C16_ManifestFirstThenTemplate ==
    IsInit =>
        /\ \A i, j \in OrderedCalls :
              i < j => StepOfCall(log[i]) <= StepOfCall(log[j])
        /\ \A i \in OrderedCalls : \E j \in Creations(Root) : j < i
        /\ \A j \in Creations(Root \o <<S_assets>>) :
              \E i \in AuxiliaryWrites : i < j /\ log[i].ok /\ StepOfCall(log[i]) = 1
        /\ \A i \in OrderedCalls :
              StepOfCall(log[i]) >= 3 =>
                  \A t \in TemplateEntries(Root, cmd.template) :
                      \E j \in Creations(t) : j < i

W16_ManifestBeforeTemplate ==
    /\ IsInit /\ pc = "done" /\ ~cmd.nogit /\ cmd.template = "basic"
    /\ \E i \in AuxiliaryWrites, j \in OrderedCalls :
          /\ i < j
          /\ log[i].path = Root \o <<S_public, S_manifest_json>>
          /\ StepOfCall(log[j]) = 2
    /\ \E v \in VersionControlCalls, i \in AuxiliaryWrites : v < i

FailedCreations ==
    {i \in DOMAIN log : ~log[i].ok /\ log[i].op \in {"mkdir", "writeFile"}}

\* C17: in a run of init, a failed mkdir or writeFile is the last call the
\* run makes (nothing is attempted after it, it is not tried again), the
\* action is left by the rejection, and every directory and file the run
\* had made before is still there, the files with the text written.
C17_FailedWriteHaltsInit ==
    IsInit =>
        \A i \in FailedCreations :
            /\ i = Len(log)
            /\ pc = "rejected"
            /\ inflight = {}
            /\ \A j \in 1..(i - 1) :
                  /\ log[j].ok
                  /\ log[j].op = "mkdir" => IsDir(fs, log[j].path)
                  /\ log[j].op = "writeFile" =>
                        /\ IsFile(fs, log[j].path)
                        /\ fs[log[j].path].tag
                              = ExpectedFiles(Root, cmd.template, cmd.nogit)[log[j].path]

W17_WriteFailedAfterOthers ==
    /\ IsInit /\ pc = "rejected" /\ exitCode # -1
    /\ \E i \in FailedCreations :
          /\ log[i].op = "writeFile"
          /\ \E j \in 1..(i - 1) : log[j].op = "writeFile"

\* the paths makeFolders is probed with, and a world without faults
ProbePaths == {Root, Root \o <<S_assets>>, Root \o <<S_src, S_objects>>}
Probe == [fs |-> fs, log |-> <<>>, ok |-> TRUE, n |-> -1]
Missing(p) == {q \in Prefixes(p) : q \notin DOMAIN fs}

\* C18: on every filesystem the commands reach and for every probed path,
\* makeFolders succeeds when the ancestors that exist are directories; when
\* it succeeds it has made exactly the missing ancestors and the path, each
\* by one mkdir, a parent before its child, and left the rest as it was; and
\* a second call on the result succeeds, makes no call and changes nothing.
\* In a completed init, the assets directory, on which makeFolders is
\* called twice, was made once.
C18_MakeFoldersRecursiveIdempotent ==
    /\ \A p \in ProbePaths :
          LET once == makeFolders(Probe, p)
              twice == makeFolders([once EXCEPT !.log = <<>>], p)
          IN  /\ (\A q \in Prefixes(p) : q \in DOMAIN fs => IsDir(fs, q)) => once.ok
              /\ once.ok =>
                    /\ Len(once.log) = Cardinality(Missing(p))
                    /\ \A i \in DOMAIN once.log :
                          /\ once.log[i].op = "mkdir" /\ once.log[i].ok
                          /\ once.log[i].path \in Missing(p)
                          /\ \A j \in DOMAIN once.log :
                                i < j => Len(once.log[i].path) < Len(once.log[j].path)
                    /\ DOMAIN once.fs = DOMAIN fs \cup Missing(p)
                    /\ \A q \in DOMAIN fs : once.fs[q] = fs[q]
                    /\ \A q \in Missing(p) : IsDir(once.fs, q)
                    /\ twice.ok /\ twice.log = <<>> /\ twice.fs = once.fs
    /\ (IsInit /\ pc = "done") =>
          Cardinality({i \in DOMAIN log : log[i].op = "mkdir"
                                          /\ log[i].path = Root \o <<S_assets>>}) = 1

W18_AncestorsMadeInOrder ==
    /\ IsInit /\ pc = "done"
    /\ Len(log) >= 2
    /\ log[1].op = "mkdir" /\ log[1].ok
    /\ log[2] = [op |-> "mkdir", path |-> Root, ok |-> TRUE]
    /\ log[1].path = SubSeq(Root, 1, Len(Root) - 1)
    /\ log[1].path \notin DOMAIN fs0

\* C19: the summary is the last thing a run of init does, and when it is
\* printed every file and directory of the chosen template and every
\* auxiliary file has been made by the run; a run whose root existed and
\* was not forced, and a run in which a call failed, never print it.
C19_SummaryOnlyAfterEverything ==
    IsInit =>
        /\ \A i \in DOMAIN log :
              log[i].op = "summary" =>
                  /\ i = Len(log)
                  /\ pc = "done"
                  /\ \A p \in DOMAIN AuxiliaryFiles(Root)
                               \cup TemplateEntries(Root, cmd.template) :
                        \E j \in Creations(p) : j < i
        /\ ((Exists(fs0, Root) /\ ~cmd.force) \/ SomeCallFailed) =>
              \A i \in DOMAIN log : log[i].op # "summary"

W19_SummaryPrinted ==
    /\ IsInit /\ exitCode = 0
    /\ cmd.force /\ Exists(fs0, Root)
    /\ log[Len(log)].op = "summary"
    /\ gitCode = 128

\* C20: whenever makeFolders returns without raising, the path and every
\* ancestor of it is a directory: on every filesystem the commands reach,
\* for every probed path; and so in the runs, where a file is written only
\* after makeFolders has returned for its directory.
C20_MakeFoldersLeavesDirectories ==
    /\ \A i \in DOMAIN log :
          log[i].op = "writeFile" =>
              \A q \in Prefixes(dirname(log[i].path)) : IsDir(fs, q)
    /\ \A p \in ProbePaths :
          LET once == makeFolders(Probe, p)
          IN  once.ok => \A q \in Prefixes(p) : IsDir(once.fs, q)

\* C21: makeFolders called on an absolute path comes to an end, by returning
\* or by raising; on the way every recursive call is made on the parent of
\* the path of its caller, it is made only when that parent does not exist,
\* so never on the filesystem root, and the number of recursive calls never
\* exceeds the number of segments of the path.  When it returns it has done
\* what makeFolders as a whole does to the filesystem it started from.
C21_MakeFoldersTerminates ==
    /\ [](/\ mf.calls <= Len(mf.path)
          /\ mf.calls < MaxCalls
          /\ Len(mf.frames) <= mf.calls + 1
          /\ <<>> \in DOMAIN fs /\ fs[<<>>].kind = "dir"
          /\ \A k \in DOMAIN mf.frames :
                /\ mf.frames[k].path = SubSeq(mf.path, 1, Len(mf.path) - (k - 1))
                /\ k > 1 => mf.frames[k].path \notin DOMAIN fs0
          /\ pc = "returned" =>
                LET whole == makeFolders([fs |-> fs0, log |-> <<>>, ok |-> TRUE, n |-> -1],
                                         mf.path)
                IN  whole.ok /\ whole.fs = fs /\ whole.log = log)
    /\ <>(pc \in {"returned", "rejected"} /\ mf.frames = <<>>)

W21_ReturnedAfterRecursion ==
    /\ pc = "returned"
    /\ mf.calls >= 2
    /\ mf.calls = Cardinality({q \in Prefixes(mf.path) : q \notin DOMAIN fs0}) - 1
    /\ \A q \in Prefixes(mf.path) : q \in DOMAIN fs /\ fs[q].kind = "dir"

====
